---- MODULE Spec2Model ----
(***************************************************************************)
(* LaundryApp (src/app.js): reservation state of four shared machines kept *)
(* in localStorage, a duration modal, a fire-and-forget completion alert   *)
(* and a one-minute status poll.  Time is in milliseconds since the first  *)
(* page load; every handler runs to completion (single-threaded event      *)
(* loop), so each handler is one action.                                   *)
(***************************************************************************)
EXTENDS Integers, Sequences, FiniteSets, Bags, TLC

(* ---- bounds of the model ---- *)
MaxTicks == 2            \* number of clock steps explored
MaxClaims == 2           \* number of records written by startTimer
MaxAdjusts == 5          \* number of +5 / -5 clicks explored

(* ---- program constants ---- *)
MinuteMs == 60000
PollMs == 60000
LeadMinutes == 10
MinTime == 5
MaxTime == 90
WasherTime == 30
DryerTime == 60
StepMinutes == 5

\* the clock advances by half an adjustment step (2.5 minutes), so that every
\* endTime and every alert falls on an instant of the clock while the time
\* left is not always a whole number of minutes
ClockStep == (StepMinutes * MinuteMs) \div 2

\* the non-number produced by parseInt("") / new Date(undefined)
NaN == -1

\* this.machines, own properties
Catalog == {"washer1", "washer2", "dryer1", "dryer2"}

\* keys that this.machines inherits from Object.prototype
ProtoKeys == {"constructor"}

\* identifiers a tag or a click carries in the behaviours explored: one
\* catalog machine, an unknown identifier and an inherited property name
ScanInputs == {"washer1", "nosuch", "constructor"}

Keys == Catalog \cup ScanInputs

NoMachine == "null"

\* localStorage.getItem of a key never set
Null == [inUse |-> FALSE, endTime |-> <<>>, item |-> FALSE]

\* {inUse: false}
FreeState == [inUse |-> FALSE, endTime |-> <<>>, item |-> TRUE]

\* now            Date.now(), in ms
\* storage        localStorage: key -> parsed item (Null when absent)
\* currentMachine this.currentMachine
\* selectedTime   parseInt of the text of #selected-time (NaN for "" and "NaN")
\* modalVisible   #timer-modal is shown
\* ui             per machine: .status text, .timer hidden, minutes in .time-left
\* alerts         bag of pending setTimeout callbacks of scheduleNotification
\* nextPoll       next due time of the setInterval callback
\* claimCount     writes done by startTimer (bounded by MaxClaims)
\* adjustCount    adjustTime calls done (bounded by MaxAdjusts)
\* lastWrite      history: machine of the last startTimer write and what it replaced
\* admitted       history: machine whose scan passed the busy check and opened the
\*                modal that is still open (NoMachine when the modal is closed)
\* clamped        history: the last adjustTime call was cut by Math.min / Math.max
VARIABLES now, storage, currentMachine, selectedTime, modalVisible, ui,
          alerts, nextPoll, claimCount, adjustCount, lastWrite, admitted, clamped

vars == <<now, storage, currentMachine, selectedTime, modalVisible, ui,
          alerts, nextPoll, claimCount, adjustCount, lastWrite, admitted, clamped>>

(* ---- JavaScript helpers ---- *)

\* Date.prototype.toISOString: the ISO-8601 text of a valid time value
ToISOString(t) == <<t>>

\* new Date(text).getTime(): NaN for undefined
NewDate(s) == IF s = <<>> THEN NaN ELSE s[1]

\* a >= b in place of a > b
GtOrEqual(a, b) == a # NaN /\ b # NaN /\ a >= b

\* a > b on time values; false when either side is NaN
Gt(a, b) == a # NaN /\ b # NaN /\ a > b

\* a <= b with NaN ordered like a number
LteNoNaN(a, b) == a <= b

\* a <= b on time values; false when either side is NaN
Lte(a, b) == a # NaN /\ b # NaN /\ a <= b

\* Math.floor in place of Math.ceil
CeilAsFloor(a, b) == a \div b

\* Math.ceil(a / b), b > 0
Ceil(a, b) == -((-a) \div b)

Max(a, b) == IF a > b THEN a ELSE b

Min(a, b) == IF a < b THEN a ELSE b

\* this.machines[machineId] is truthy
MachineLookup(machineId) == machineId \in Catalog \cup ProtoKeys

\* this.machines[machineId].defaultTime, as the text put in #selected-time
DefaultTime(machineId) ==
    IF machineId \in {"washer1", "washer2"} THEN WasherTime
    ELSE IF machineId \in {"dryer1", "dryer2"} THEN DryerTime
    ELSE NaN

(* ---- storage ---- *)

GetMachineState(st, machineId) == st[machineId]

SetMachineState(st, machineId, state) == [st EXCEPT ![machineId] = state]

\* endTime >= now in place of endTime > now
IsMachineInUseAtEnd(st, t, machineId) ==
    LET state == GetMachineState(st, machineId) IN
    IF state = Null THEN FALSE
    ELSE state.inUse /\ NewDate(state.endTime) # NaN /\ NewDate(state.endTime) >= t

\* the stored flag alone, without the comparison with the clock
IsMachineInUseStoredFlag(st, t, machineId) ==
    LET state == GetMachineState(st, machineId) IN
    IF state = Null THEN FALSE
    ELSE state.inUse

IsMachineInUse(st, t, machineId) ==
    LET state == GetMachineState(st, machineId) IN
    IF state = Null THEN FALSE
    ELSE state.inUse /\ Gt(NewDate(state.endTime), t)

\* endTime < now in place of endTime <= now
SweepStatesStrict(st, t) ==
    [k \in Keys |->
        IF k \in Catalog /\ st[k] # Null /\ NewDate(st[k].endTime) # NaN /\ NewDate(st[k].endTime) < t
        THEN FreeState
        ELSE st[k]]

\* the loop of loadMachineStates
SweepStates(st, t) ==
    [k \in Keys |->
        IF k \in Catalog /\ st[k] # Null /\ Lte(NewDate(st[k].endTime), t)
        THEN FreeState
        ELSE st[k]]

\* the keys loadMachineStates rewrites (its setMachineState calls)
SweepWrites(st, t) ==
    {k \in Catalog : st[k] # Null /\ Lte(NewDate(st[k].endTime), t)}

\* how a stored record stands at time t: "none", "free", "stale" or "active";
\* used only to remember what the last write of startTimer replaced
RecordKind(state, t) ==
    IF state = Null THEN "none"
    ELSE IF ~state.inUse THEN "free"
    ELSE IF state.endTime[1] <= t THEN "stale"
    ELSE "active"

(* ---- rendering ---- *)

\* updateUI: status text, visibility of the timer and its .time-left text
UpdateUI(st, t, old) ==
    [m \in Catalog |->
        IF IsMachineInUse(st, t, m)
        THEN [status |-> "In Use", timerHidden |-> FALSE,
              minutesLeft |-> Ceil(NewDate(GetMachineState(st, m).endTime) - t, MinuteMs)]
        ELSE [status |-> "Available", timerHidden |-> TRUE,
              minutesLeft |-> old[m].minutesLeft]]

\* the page as served, before the constructor runs
Markup == [m \in Catalog |-> [status |-> "Available", timerHidden |-> TRUE, minutesLeft |-> 0]]

MarkupSelectedTime == WasherTime

(* ---- state after new LaundryApp() on an empty store ---- *)
Init ==
    /\ now = 0
    /\ storage = [k \in Keys |-> Null]
    /\ currentMachine = NoMachine
    /\ selectedTime = MarkupSelectedTime
    /\ modalVisible = FALSE
    /\ ui = UpdateUI([k \in Keys |-> Null], 0, Markup)
    /\ alerts = EmptyBag
    /\ nextPoll = PollMs
    /\ claimCount = 0
    /\ adjustCount = 0
    /\ lastWrite = [id |-> NoMachine, prev |-> "none"]
    /\ admitted = NoMachine
    /\ clamped = FALSE

(* ---- handlers ---- *)

HandleMachineScan(machineId) ==
    /\ IF MachineLookup(machineId)
       THEN /\ currentMachine' = machineId
            /\ IF IsMachineInUse(storage, now, machineId)
               THEN UNCHANGED <<selectedTime, modalVisible>>
               ELSE /\ selectedTime' = DefaultTime(machineId)
                    /\ modalVisible' = TRUE
       ELSE UNCHANGED <<currentMachine, selectedTime, modalVisible>>
    /\ admitted' = IF MachineLookup(machineId) /\ ~IsMachineInUse(storage, now, machineId)
                   THEN machineId ELSE admitted
    /\ UNCHANGED <<now, storage, ui, alerts, nextPoll, claimCount, adjustCount, lastWrite, clamped>>

\* adjustTime without the Math.min / Math.max of line 124
AdjustTimeUnclamped(minutes) ==
    /\ adjustCount < MaxAdjusts
    /\ adjustCount' = adjustCount + 1
    /\ selectedTime' = IF selectedTime = NaN THEN NaN ELSE selectedTime + minutes
    /\ clamped' = (selectedTime # NaN /\ selectedTime + minutes \notin MinTime..MaxTime)
    /\ UNCHANGED <<now, storage, currentMachine, modalVisible, ui, alerts, nextPoll, claimCount, lastWrite, admitted>>

AdjustTime(minutes) ==
    /\ adjustCount < MaxAdjusts
    /\ adjustCount' = adjustCount + 1
    /\ selectedTime' = IF selectedTime = NaN THEN NaN
                       ELSE Min(Max(selectedTime + minutes, MinTime), MaxTime)
    /\ clamped' = (selectedTime # NaN /\ selectedTime + minutes \notin MinTime..MaxTime)
    /\ UNCHANGED <<now, storage, currentMachine, modalVisible, ui, alerts, nextPoll, claimCount, lastWrite, admitted>>

HideModal ==
    /\ modalVisible' = FALSE
    /\ currentMachine' = NoMachine
    /\ admitted' = NoMachine
    /\ UNCHANGED <<now, storage, selectedTime, ui, alerts, nextPoll, claimCount, adjustCount, lastWrite, clamped>>

\* a timer that keeps a negative delay
TimeoutDueUnclamped(t, delay) == t + delay

\* setTimeout: a negative delay is treated as 0
TimeoutDue(t, delay) == t + Max(delay, 0)

\* the pending callback remembers machineId; state (the record it was
\* scheduled for) is kept for reference only, the callback never reads it
ScheduleNotification(al, t, machineId, minutes, state) ==
    al (+) SetToBag({[machineId |-> machineId,
                      due |-> TimeoutDue(t, (minutes - LeadMinutes) * MinuteMs),
                      state |-> state]})

\* minutes taken as seconds
NewStateSeconds(t, minutes) == [inUse |-> TRUE, endTime |-> ToISOString(t + minutes * 1000), item |-> TRUE]

\* the record startTimer writes
NewState(t, minutes) == [inUse |-> TRUE, endTime |-> ToISOString(t + minutes * MinuteMs), item |-> TRUE]

\* if (!this.currentMachine) return
StartTimerNoMachine ==
    /\ currentMachine = NoMachine
    /\ UNCHANGED <<now, storage, currentMachine, selectedTime, modalVisible, ui, alerts, nextPoll, claimCount, adjustCount, lastWrite, admitted, clamped>>

\* minutes is NaN: new Date(NaN).toISOString() throws RangeError before anything is written
StartTimerThrows ==
    /\ currentMachine # NoMachine
    /\ selectedTime = NaN
    /\ UNCHANGED <<now, storage, currentMachine, selectedTime, modalVisible, ui, alerts, nextPoll, claimCount, adjustCount, lastWrite, admitted, clamped>>

StartTimerWrites ==
    /\ currentMachine # NoMachine
    /\ selectedTime # NaN
    /\ claimCount < MaxClaims
    /\ LET minutes == selectedTime
           state == NewState(now, minutes)
           st == SetMachineState(storage, currentMachine, state)
       IN /\ storage' = st
          /\ alerts' = ScheduleNotification(alerts, now, currentMachine, minutes, state)
          /\ ui' = UpdateUI(st, now, ui)
          /\ lastWrite' = [id |-> currentMachine, prev |-> RecordKind(storage[currentMachine], now)]
    /\ modalVisible' = FALSE
    /\ currentMachine' = NoMachine
    /\ admitted' = NoMachine
    /\ claimCount' = claimCount + 1
    /\ UNCHANGED <<now, selectedTime, nextPoll, adjustCount, clamped>>

StartTimer == StartTimerNoMachine \/ StartTimerThrows \/ StartTimerWrites

\* the setTimeout callback of scheduleNotification; whether the notification
\* is shown depends on the permission, which no handler reads
FireAlert ==
    \E a \in BagToSet(alerts) :
        /\ a.due <= now
        /\ alerts' = alerts (-) SetToBag({a})
        /\ UNCHANGED <<now, storage, currentMachine, selectedTime, modalVisible, ui, nextPoll, claimCount, adjustCount, lastWrite, admitted, clamped>>

\* the setInterval callback: () => this.updateUI()
Poll ==
    /\ nextPoll <= now
    /\ ui' = UpdateUI(storage, now, ui)
    /\ nextPoll' = nextPoll + PollMs * (((now - nextPoll) \div PollMs) + 1)
    /\ UNCHANGED <<now, storage, currentMachine, selectedTime, modalVisible, alerts, claimCount, adjustCount, lastWrite, admitted, clamped>>

\* a page load that kept the timers of the previous page
LoadPageKeepsAlerts ==
    /\ currentMachine' = NoMachine
    /\ selectedTime' = MarkupSelectedTime
    /\ modalVisible' = FALSE
    /\ alerts' = alerts
    /\ nextPoll' = now + PollMs
    /\ storage' = SweepStates(storage, now)
    /\ ui' = UpdateUI(SweepStates(storage, now), now, Markup)
    /\ admitted' = NoMachine
    /\ clamped' = FALSE
    /\ UNCHANGED <<now, claimCount, adjustCount, lastWrite>>

\* page load: constructor, then loadMachineStates; timers of the previous
\* page are gone, localStorage is kept
LoadPage ==
    /\ currentMachine' = NoMachine
    /\ selectedTime' = MarkupSelectedTime
    /\ modalVisible' = FALSE
    /\ alerts' = EmptyBag
    /\ nextPoll' = now + PollMs
    /\ storage' = SweepStates(storage, now)
    /\ ui' = UpdateUI(SweepStates(storage, now), now, Markup)
    /\ admitted' = NoMachine
    /\ clamped' = FALSE
    /\ UNCHANGED <<now, claimCount, adjustCount, lastWrite>>

\* the clock advances once every callback that is due has run
Tick ==
    /\ now + ClockStep <= MaxTicks * ClockStep
    /\ nextPoll > now
    /\ \A a \in BagToSet(alerts) : a.due > now
    /\ now' = now + ClockStep
    /\ UNCHANGED <<storage, currentMachine, selectedTime, modalVisible, ui, alerts, nextPoll, claimCount, adjustCount, lastWrite, admitted, clamped>>

Next ==
    \/ \E machineId \in ScanInputs : HandleMachineScan(machineId)
    \/ \E minutes \in {-5, 5} : AdjustTime(minutes)
    \/ StartTimer
    \/ HideModal
    \/ FireAlert
    \/ Poll
    \/ LoadPage
    \/ Tick

Spec == Init /\ [][Next]_vars

(* ======================= properties ======================= *)

\* the stored record of m is an active reservation at time t
Active(st, t, m) ==
    /\ st[m].item
    /\ st[m].inUse
    /\ st[m].endTime # <<>>
    /\ st[m].endTime[1] > t

\* the stored record of m is flagged inUse but its endTime has passed
Stale(st, t, m) ==
    /\ st[m].item
    /\ st[m].inUse
    /\ st[m].endTime # <<>>
    /\ st[m].endTime[1] <= t

\* what updateUI shows for m when it runs in the current state
Shown(m) == UpdateUI(storage, now, ui)[m]

\* C1: while the stored reservation of a machine is active (inUse and endTime
\* strictly after now) no claim on that machine succeeds and its stored record
\* is not changed.
C1_ActiveReservationKept ==
    [][\A m \in Catalog :
          Active(storage, now, m) =>
              /\ storage'[m] = storage[m]
              /\ (claimCount' # claimCount => currentMachine # m)]_vars

\* C2: the derived status of a catalog machine is InUse exactly when a record
\* exists with inUse = true and endTime strictly after now, and Available in
\* every other case, a passed endTime with the flag still set included.
C2_StatusDerivation ==
    \A m \in Catalog :
        /\ IsMachineInUse(storage, now, m) <=> Active(storage, now, m)
        /\ Shown(m).status = (IF Active(storage, now, m) THEN "In Use" ELSE "Available")
        /\ Shown(m).timerHidden = ~Active(storage, now, m)

C2_Witness ==
    \E m \in Catalog : Stale(storage, now, m) /\ Shown(m).status = "Available"

\* C3: a successful claim of an Available machine for d minutes, d in [5, 90],
\* stores endTime = claim time + d minutes and the status rendered at the same
\* instant is In Use with d minutes remaining.
C3_ClaimThenStatus ==
    [][(/\ claimCount' = claimCount + 1
        /\ currentMachine \in Catalog
        /\ ~Active(storage, now, currentMachine)
        /\ selectedTime \in MinTime..MaxTime)
       => (/\ storage'[currentMachine].inUse
           /\ storage'[currentMachine].endTime = <<now + selectedTime * 60000>>
           /\ ui'[currentMachine].status = "In Use"
           /\ ui'[currentMachine].timerHidden = FALSE
           /\ ui'[currentMachine].minutesLeft = selectedTime)]_vars

C3_Witness ==
    /\ lastWrite.id \in Catalog
    /\ lastWrite.prev # "active"
    /\ storage[lastWrite.id].endTime = <<now + selectedTime * 60000>>
    /\ ui[lastWrite.id].status = "In Use"
    /\ ui[lastWrite.id].minutesLeft = selectedTime

\* C4: whenever a machine is shown In Use, the minutes remaining are
\* ceil((endTime - now) / 1 minute) and at least 1, never 0 or negative.
C4_MinutesRemaining ==
    \A m \in Catalog :
        /\ Shown(m).status = "In Use" =>
              LET left == storage[m].endTime[1] - now
                  k == Shown(m).minutesLeft
              IN /\ k >= 1
                 /\ (k - 1) * 60000 < left
                 /\ left <= k * 60000
        /\ ui[m].status = "In Use" => ui[m].minutesLeft >= 1

C4_Witness ==
    \E m \in Catalog :
        /\ ui[m].status = "In Use"
        /\ ui[m] = Shown(m)
        /\ (storage[m].endTime[1] - now) % 60000 # 0

\* C5: a scan of a machine whose record is stale (inUse = true, endTime passed,
\* not rewritten) is not rejected: it selects the machine and opens the
\* duration step; the confirm that follows replaces the record by an active
\* reservation.
C5_StaleClaimSucceeds ==
    [][\A id \in Catalog :
          Stale(storage, now, id) =>
              /\ HandleMachineScan(id) =>
                    (modalVisible' /\ currentMachine' = id /\ selectedTime' = DefaultTime(id))
              /\ (currentMachine = id /\ claimCount' = claimCount + 1) =>
                    (Active(storage', now', id) /\ storage'[id] # storage[id])]_vars

C5_Witness ==
    /\ lastWrite.id \in Catalog
    /\ lastWrite.prev = "stale"
    /\ Active(storage, now, lastWrite.id)

(* ---- startTimer on its own: the duration text as an input ---- *)

\* texts of #selected-time handed to startTimer, in and out of [5, 90]
DurationInputs == {0, 5, 90, 95, 200, NaN}

InitClaim ==
    /\ now = 0
    /\ storage = [k \in Keys |-> Null]
    /\ currentMachine \in Catalog \cup {NoMachine}
    /\ selectedTime \in DurationInputs
    /\ modalVisible = (currentMachine # NoMachine)
    /\ ui = UpdateUI([k \in Keys |-> Null], 0, Markup)
    /\ alerts = EmptyBag
    /\ nextPoll = PollMs
    /\ claimCount = 0
    /\ adjustCount = 0
    /\ lastWrite = [id |-> NoMachine, prev |-> "none"]
    /\ admitted = currentMachine
    /\ clamped = FALSE

NextClaim ==
    \/ StartTimer
    \/ FireAlert
    \/ Poll
    \/ Tick

SpecClaim == InitClaim /\ [][NextClaim]_vars

C7_UnknownMachineIgnored ==
    [][/\ \A id \in ScanInputs \ Catalog :
            HandleMachineScan(id) =>
                UNCHANGED <<storage, alerts, currentMachine, selectedTime, modalVisible>>
       /\ (StartTimer /\ currentMachine \notin Catalog) => (storage' = storage /\ alerts' = alerts)
       /\ \A k \in Keys \ Catalog : storage'[k] = Null]_vars

\* C8: every successful claim of duration d schedules exactly one alert for
\* that machine, due max(0, d - 10) minutes after the claim instant: 10
\* minutes before endTime when d > 10, at the claim instant when d <= 10.
C8_AlertScheduled ==
    [][claimCount' = claimCount + 1 =>
          \E a \in BagToSet(alerts') :
              /\ alerts' = alerts (+) SetToBag({a})
              /\ a.machineId = currentMachine
              /\ a.due = now + (IF selectedTime > 10 THEN (selectedTime - 10) * 60000 ELSE 0)
              /\ selectedTime > 10 => a.due = storage'[currentMachine].endTime[1] - 10 * 60000]_vars

C8_Witness ==
    \E a \in BagToSet(alerts) :
        /\ a.machineId = lastWrite.id
        /\ a.state = storage[lastWrite.id]
        /\ a.due = now
        /\ a.state.endTime[1] - a.due < 10 * 60000

\* C9: at most one alert is pending per machine, and it belongs to the
\* reservation currently stored for that machine.
C9_OnePendingAlert ==
    \A a \in BagToSet(alerts) :
        /\ CopiesIn(a, alerts) = 1
        /\ \A b \in BagToSet(alerts) : b.machineId = a.machineId => b = a
        /\ a.state = storage[a.machineId]

\* C10: after the sweep of loadMachineStates has run at time now, every catalog
\* machine whose stored record had endTime <= now has a record with
\* inUse = false.
C10_SweepFreesExpired ==
    [][LoadPage =>
          \A m \in Catalog :
              (storage[m].item /\ storage[m].endTime # <<>> /\ storage[m].endTime[1] <= now)
                  => (storage'[m].item /\ storage'[m].inUse = FALSE)]_vars

C10_Witness ==
    \E m \in Catalog :
        /\ storage[m] = FreeState
        /\ lastWrite.id = m
        /\ ui[m].status = "Available"

\* C11: the sweep is idempotent: run again right after a page load, with no
\* claim in between, loadMachineStates writes no record (records already
\* {inUse:false}, which carry no endTime, included) and leaves storage as the
\* first run left it.
C11_SweepIdempotent ==
    [][LoadPage =>
          /\ SweepWrites(storage', now') = {}
          /\ SweepStates(storage', now') = storage']_vars

C11_Witness ==
    \E m \in Catalog :
        /\ storage[m] = FreeState
        /\ SweepWrites(storage, now) = {}
        /\ nextPoll = now + PollMs
        /\ alerts = EmptyBag
        /\ currentMachine = NoMachine
        /\ now > 0

\* C12: the sweep runs again on every recurring timer tick: after the tick
\* that follows a record's expiry, the record is stored with inUse = false.
C12_PollSweepsStale ==
    [][Poll =>
          \A m \in Catalog :
              Stale(storage, now, m) => (storage'[m].item /\ storage'[m].inUse = FALSE)]_vars

\* C13: the busy check and the record write are one step: the machine a
\* startTimer write stores is the machine whose scan passed the busy check for
\* this write, and it is not InUse at the moment of the write.
C13_CheckAndWriteAtomic ==
    [][claimCount' = claimCount + 1 =>
          /\ admitted = currentMachine
          /\ ~IsMachineInUse(storage, now, currentMachine)]_vars

\* C14: pending alerts do not survive a restart while reservations do: a page
\* load leaves no alert pending and keeps every active reservation as stored
\* (still InUse, same endTime); alerts become pending only by a later
\* startTimer write, so an alert lost at a restart never fires.
C14_AlertsLostRecordsKept ==
    [][/\ LoadPage =>
            /\ alerts' = EmptyBag
            /\ \A m \in Catalog :
                   Active(storage, now, m) =>
                       /\ storage'[m] = storage[m]
                       /\ IsMachineInUse(storage', now', m)
       /\ \A a \in BagToSet(alerts') :
              CopiesIn(a, alerts') > CopiesIn(a, alerts) => claimCount' = claimCount + 1]_vars

C14_Witness ==
    \E m \in Catalog :
        /\ Active(storage, now, m)
        /\ lastWrite.id = m
        /\ storage[m].endTime[1] - LeadMinutes * MinuteMs > now
        /\ alerts = EmptyBag
        /\ ui[m].status = "In Use"

\* the duration step: the texts #selected-time holds after a scan of a catalog
\* machine and clicks on the two adjustment buttons
StepTimes == {n \in MinTime..MaxTime : n % StepMinutes = 0}

\* one machine of each type
DurationScans == {"washer1", "dryer1"}

InitDuration ==
    /\ now = 0
    /\ storage = [k \in Keys |-> Null]
    /\ currentMachine \in DurationScans
    /\ selectedTime \in {MinTime, DefaultTime(currentMachine), MaxTime}
    /\ modalVisible = TRUE
    /\ ui = UpdateUI([k \in Keys |-> Null], 0, Markup)
    /\ alerts = EmptyBag
    /\ nextPoll = PollMs
    /\ claimCount = 0
    /\ adjustCount = 0
    /\ lastWrite = [id |-> NoMachine, prev |-> "none"]
    /\ admitted = currentMachine
    /\ clamped = FALSE

NextDuration ==
    \/ \E machineId \in DurationScans : HandleMachineScan(machineId)
    \/ \E minutes \in {-StepMinutes, StepMinutes} : AdjustTime(minutes)
    \/ StartTimerNoMachine
    \/ StartTimerWrites
    \/ HideModal

SpecDuration == InitDuration /\ [][NextDuration]_vars

\* C15: once the duration step is open for a catalog machine the selected
\* duration is a multiple of 5 within [5, 90]: an accepted scan sets the
\* machine's default (30 or 60), -5 at 5 stays at 5, +5 at 90 stays at 90, any
\* other adjustment moves by 5; every record written by confirm ends between 5
\* and 90 minutes after the write.
C15_DurationInRange ==
    [][/\ (modalVisible' /\ admitted' \in Catalog) => selectedTime' \in StepTimes
       /\ \A id \in Catalog :
              (HandleMachineScan(id) /\ ~IsMachineInUse(storage, now, id)) =>
                  /\ selectedTime' = DefaultTime(id)
                  /\ selectedTime' \in {WasherTime, DryerTime}
       /\ \A minutes \in {-StepMinutes, StepMinutes} :
              (AdjustTime(minutes) /\ modalVisible /\ admitted \in Catalog) =>
                  selectedTime' = IF selectedTime = MinTime /\ minutes < 0 THEN MinTime
                                  ELSE IF selectedTime = MaxTime /\ minutes > 0 THEN MaxTime
                                  ELSE selectedTime + minutes
       /\ claimCount' = claimCount + 1 =>
              \E d \in MinTime..MaxTime :
                  storage'[currentMachine] = NewState(now, d)]_vars

C15_Witness ==
    /\ clamped
    /\ selectedTime = MaxTime
    /\ modalVisible
    /\ admitted \in Catalog

\* C16: when an alert naming machine m fires, m is InUse, the record stored
\* for m is the reservation the alert was scheduled for, and that reservation
\* ends at most 10 minutes later, exactly 10 minutes later when it was longer
\* than 10 minutes.
C16_AlertForLiveReservation ==
    [][\A a \in BagToSet(alerts) :
           (a.due <= now /\ alerts' = alerts (-) SetToBag({a}) /\ FireAlert) =>
               /\ IsMachineInUse(storage, now, a.machineId)
               /\ storage[a.machineId] = a.state
               /\ a.state.endTime[1] - now <= LeadMinutes * MinuteMs
               /\ a.state.endTime[1] - a.due = LeadMinutes * MinuteMs =>
                      a.state.endTime[1] - now = LeadMinutes * MinuteMs]_vars

\* C17: a scan rejected because the machine is InUse changes nothing: stored
\* records, pending alerts, currentMachine, the selected duration and the
\* visibility of the duration step are the same after it as before.
C17_RejectedScanNoEffect ==
    [][\A id \in Catalog :
           (IsMachineInUse(storage, now, id) /\ HandleMachineScan(id)) =>
               UNCHANGED <<storage, alerts, currentMachine, selectedTime, modalVisible>>]_vars

\* C18: a page load and the status poll leave every active reservation
\* (inUse = true, endTime after now) stored exactly as it was, and no record
\* passes both the sweep's expiry test (endTime <= now) and the status test
\* (endTime > now) at the same instant.
C18_ActiveRecordUndisturbed ==
    [][/\ (LoadPage \/ Poll) =>
            \A m \in Catalog : Active(storage, now, m) => storage'[m] = storage[m]
       /\ \A m \in Catalog :
              ~(IsMachineInUse(storage, now, m) /\ m \in SweepWrites(storage, now))]_vars

C18_Witness ==
    \E m \in Catalog :
        /\ Active(storage, now, m)
        /\ lastWrite.id = m
        /\ alerts = EmptyBag
        /\ storage[m].endTime[1] - LeadMinutes * MinuteMs > now
        /\ nextPoll > now
        /\ nextPoll < now + PollMs
        /\ ui[m].minutesLeft = Ceil(storage[m].endTime[1] - now, MinuteMs)

\* C19: Cancel and confirm both clear the selection and confirm without a
\* selection does nothing: hideModal leaves currentMachine null and writes no
\* record and no alert, a startTimer write leaves currentMachine null, and a
\* confirm that no accepted scan precedes (none since the last Cancel, confirm
\* or page load) writes no record and schedules no alert.
C19_OneScanOneReservation ==
    [][/\ HideModal =>
            (currentMachine' = NoMachine /\ storage' = storage /\ alerts' = alerts)
       /\ claimCount' = claimCount + 1 => currentMachine' = NoMachine
       /\ (currentMachine = NoMachine /\ StartTimer) => UNCHANGED vars
       /\ (admitted = NoMachine /\ StartTimer) =>
            (storage' = storage /\ alerts' = alerts)]_vars

====
